---- MODULE Spec2Model ----
(***************************************************************************)
(* hidden-pixel-vault: a PNG chunk steganography tool whose mutations of   *)
(* the image go through AtomicFileHandler (backup, temp copy, rename,      *)
(* rollback).  The model follows src/src/atomic_file.rs and                *)
(* src/src/commands.rs.  The chunk codec (chunk.rs, chunk_type.rs, png.rs) *)
(* is not among the sources; it is modelled from sections 3, 4.1-4.3 and 6 *)
(* of the specification.                                                   *)
(*                                                                         *)
(* Bytes are naturals 0..255, files are sequences of bytes, a chunk tag is *)
(* the sequence of its ASCII bytes, a message is a sequence of Unicode     *)
(* code points (a Rust String), a path is the sequence of the dot          *)
(* separated parts of its file name (<<"img","png">> is img.png).          *)
(*                                                                         *)
(* Spec runs commands one after the other on one image, any file system    *)
(* call failing or not.  SpecRace runs two processes at once, each with    *)
(* one encode or remove on the same path, their file system calls          *)
(* interleaved.                                                            *)
(***************************************************************************)
EXTENDS Integers, Sequences, FiniteSets, TLC

(* ------------------------------ bounds -------------------------------- *)

\* commands run one after the other in one behaviour
MaxCmds == 2
\* filesystem calls that fail within one command
MaxFaults == 2
\* code points in an encoded message
MaxMsgLen == 1

(* ------------------------------ bytes --------------------------------- *)

RECURSIVE XorBits(_, _, _)
\* bitwise exclusive or of the low n bits of a and b
XorBits(a, b, n) ==
    IF n = 0 THEN 0
    ELSE ((a + b) % 2) + (2 * XorBits(a \div 2, b \div 2, n - 1))

\* A 32-bit word is kept as <<high 16 bits, low 16 bits>>.
Xor32(x, y) == <<XorBits(x[1], y[1], 16), XorBits(x[2], y[2], 16)>>

Shr32(x, k) ==
    LET p == 2 ^ k
        q == 2 ^ (16 - k)
    IN  <<x[1] \div p, ((x[1] % p) * q) + (x[2] \div p)>>

\* the reflected IEEE polynomial 0xEDB88320
CrcPoly == <<60856, 33568>>

RECURSIVE CrcBitRounds(_, _)
CrcBitRounds(c, n) ==
    IF n = 0 THEN c
    ELSE CrcBitRounds(IF c[2] % 2 = 1 THEN Xor32(Shr32(c, 1), CrcPoly)
                                      ELSE Shr32(c, 1), n - 1)

\* a 32-bit word as its 4 bytes, most significant first
WordBytes(c) == <<c[1] \div 256, c[1] % 256, c[2] \div 256, c[2] % 256>>

\* the byte-wise table of the reflected CRC-32
CrcTable == [i \in 0..255 |-> WordBytes(CrcBitRounds(<<0, i>>, 8))]

\* exclusive or of two bytes, tabulated
XorByte == [a \in 0..255 |-> [b \in 0..255 |-> XorBits(a, b, 8)]]

RECURSIVE CrcFold(_, _, _)
\* crc = table[(crc ^ byte) & 0xFF] ^ (crc >> 8), over the bytes from i on
CrcFold(c, bytes, i) ==
    IF i > Len(bytes) THEN c
    ELSE LET t == CrcTable[XorByte[c[4]][bytes[i]]]
         IN  CrcFold(<<t[1], XorByte[t[2]][c[1]], XorByte[t[3]][c[2]],
                       XorByte[t[4]][c[3]]>>, bytes, i + 1)

\* CRC-32 (IEEE) of a byte sequence, as its 4 big-endian bytes: initial value
\* 0xFFFFFFFF, final complement
Crc32(bytes) ==
    LET c == CrcFold(<<255, 255, 255, 255>>, bytes, 1)
    IN  <<255 - c[1], 255 - c[2], 255 - c[3], 255 - c[4]>>

\* u32 as 4 big-endian bytes (lengths in the model stay below 2^16)
U32BE(n) == <<0, 0, n \div 256, n % 256>>

\* the value of 4 big-endian bytes, or -1 when it does not fit the model's integers
FromU32BE(b) == IF b[1] = 0 /\ b[2] = 0 THEN (b[3] * 256) + b[4] ELSE -1

(* ------------------------------ UTF-8 --------------------------------- *)

\* str::as_bytes of one code point
Utf8OfCodePoint(cp) ==
    IF cp < 128 THEN <<cp>>
    ELSE IF cp < 2048 THEN <<192 + (cp \div 64), 128 + (cp % 64)>>
    ELSE IF cp < 65536
         THEN <<224 + (cp \div 4096), 128 + ((cp \div 64) % 64), 128 + (cp % 64)>>
    ELSE <<240 + (cp \div 262144), 128 + ((cp \div 4096) % 64),
           128 + ((cp \div 64) % 64), 128 + (cp % 64)>>

\* faulty variant: one byte per code point
AsBytesOneBytePerChar(msg) == msg

RECURSIVE AsBytes(_)
\* message.as_bytes().to_vec()
AsBytes(msg) ==
    IF msg = <<>> THEN <<>> ELSE Utf8OfCodePoint(Head(msg)) \o AsBytes(Tail(msg))

IsCont(b) == b >= 128 /\ b <= 191

RECURSIVE Utf8Decode(_, _, _)
\* String::from_utf8: the code points of well-formed UTF-8, or failure
Utf8Decode(b, i, acc) ==
    LET n == Len(b)
        b0 == b[i]
        Bad == [ok |-> FALSE, text |-> <<>>]
    IN  IF i > n THEN [ok |-> TRUE, text |-> acc]
        ELSE IF b0 < 128 THEN Utf8Decode(b, i + 1, Append(acc, b0))
        ELSE IF b0 >= 194 /\ b0 <= 223
             THEN IF i + 1 <= n /\ IsCont(b[i + 1])
                  THEN Utf8Decode(b, i + 2,
                                  Append(acc, ((b0 - 192) * 64) + (b[i + 1] - 128)))
                  ELSE Bad
        ELSE IF b0 >= 224 /\ b0 <= 239
             THEN IF /\ i + 2 <= n
                     /\ IsCont(b[i + 1]) /\ IsCont(b[i + 2])
                     /\ (b0 = 224 => b[i + 1] >= 160)
                     /\ (b0 = 237 => b[i + 1] <= 159)
                  THEN Utf8Decode(b, i + 3,
                                  Append(acc, ((b0 - 224) * 4096)
                                              + ((b[i + 1] - 128) * 64)
                                              + (b[i + 2] - 128)))
                  ELSE Bad
        ELSE IF b0 >= 240 /\ b0 <= 244
             THEN IF /\ i + 3 <= n
                     /\ IsCont(b[i + 1]) /\ IsCont(b[i + 2]) /\ IsCont(b[i + 3])
                     /\ (b0 = 240 => b[i + 1] >= 144)
                     /\ (b0 = 244 => b[i + 1] <= 143)
                  THEN Utf8Decode(b, i + 4,
                                  Append(acc, ((b0 - 240) * 262144)
                                              + ((b[i + 1] - 128) * 4096)
                                              + ((b[i + 2] - 128) * 64)
                                              + (b[i + 3] - 128)))
                  ELSE Bad
        ELSE Bad

(* ------------------------- chunk type (4.1) --------------------------- *)

IsUpper(b) == b >= 65 /\ b <= 90
IsLower(b) == b >= 97 /\ b <= 122
IsAlpha(b) == IsUpper(b) \/ IsLower(b)

\* ChunkType::from_str / try_from: exactly 4 ASCII letters
ChunkTypeOk(tag) == Len(tag) = 4 /\ \A i \in 1..4 : IsAlpha(tag[i])

(* ----------------------------- chunk (4.2) ---------------------------- *)

\* Chunk::new(type, data): a chunk is its type and its data; length and
\* checksum are computed from them
NewChunk(tag, data) == [type |-> tag, data |-> data]

ChunkCrc(c) == Crc32(c.type \o c.data)

\* Chunk::as_bytes: length(4 BE) ++ type(4) ++ data ++ crc(4 BE)
ChunkBytes(c) == U32BE(Len(c.data)) \o c.type \o c.data \o ChunkCrc(c)

\* Chunk::try_from on the bytes from position i: the chunk and the position
\* after it, or failure
ParseChunkAt(b, i) ==
    LET n == Len(b)
        Bad == [ok |-> FALSE, chunk |-> NewChunk(<<>>, <<>>), next |-> i]
    IN  IF i + 11 > n THEN Bad
        ELSE LET len == FromU32BE(SubSeq(b, i, i + 3))
                 tag == SubSeq(b, i + 4, i + 7)
             IN  IF len < 0 \/ i + 11 + len > n THEN Bad
                 ELSE LET data == SubSeq(b, i + 8, i + 7 + len)
                          crc == SubSeq(b, i + 8 + len, i + 11 + len)
                          c == NewChunk(tag, data)
                      IN  IF ~ChunkTypeOk(tag) THEN Bad
                          ELSE IF crc # ChunkCrc(c) THEN Bad
                          ELSE [ok |-> TRUE, chunk |-> c, next |-> i + 12 + len]

\* Chunk::data_as_string
DataAsString(c) == Utf8Decode(c.data, 1, <<>>)

(* ------------------------- png container (4.3) ------------------------ *)

\* Png::STANDARD_HEADER
Signature == <<137, 80, 78, 71, 13, 10, 26, 10>>

RECURSIVE ParseChunksFrom(_, _, _)
ParseChunksFrom(b, i, acc) ==
    IF i > Len(b) THEN [ok |-> TRUE, chunks |-> acc]
    ELSE LET r == ParseChunkAt(b, i)
         IN  IF r.ok THEN ParseChunksFrom(b, r.next, Append(acc, r.chunk))
             ELSE [ok |-> FALSE, chunks |-> <<>>]

\* Png::try_from(bytes): the signature, then chunks until the bytes run out
ParsePng(b) ==
    IF Len(b) < 8 \/ SubSeq(b, 1, 8) # Signature
    THEN [ok |-> FALSE, chunks |-> <<>>]
    ELSE ParseChunksFrom(b, 9, <<>>)

RECURSIVE ChunksBytes(_)
ChunksBytes(cs) ==
    IF cs = <<>> THEN <<>> ELSE ChunkBytes(Head(cs)) \o ChunksBytes(Tail(cs))

\* Png::as_bytes
PngBytes(cs) == Signature \o ChunksBytes(cs)

\* position of the first chunk of the type, 0 when there is none
FirstIndex(cs, tag) ==
    IF \E i \in 1..Len(cs) : cs[i].type = tag
    THEN CHOOSE i \in 1..Len(cs) :
            cs[i].type = tag /\ \A j \in 1..(i - 1) : cs[j].type # tag
    ELSE 0

\* Png::chunk_by_type(tag).is_some()
HasChunk(cs, tag) == FirstIndex(cs, tag) # 0

\* what Png::remove_chunk leaves: the first match taken out, the rest in order
RemoveAt(cs, k) == [i \in 1..(Len(cs) - 1) |-> IF i < k THEN cs[i] ELSE cs[i + 1]]

\* Png::append_chunk
AppendChunk(cs, c) == Append(cs, c)

(* ------------------------------ inputs -------------------------------- *)

IHDR == <<73, 72, 68, 82>>
PLTE == <<80, 76, 84, 69>>
IDAT == <<73, 68, 65, 84>>
IEND == <<73, 69, 78, 68>>
\* the list ["IHDR", "PLTE", "IDAT", "IEND"] of encode and remove
CriticalNames == {IHDR, PLTE, IDAT, IEND}

\* "ruSt", "teXt": payload tags; "rust": third letter lowercase; "ruS": 3 letters
TagRuSt == <<114, 117, 83, 116>>
TagTeXt == <<116, 101, 88, 116>>
TagRust == <<114, 117, 115, 116>>
TagRuS == <<114, 117, 83>>
Tags == {TagRuSt, TagTeXt, TagRust, TagRuS, IHDR, PLTE, IDAT, IEND}

\* e-acute, two bytes of UTF-8 (the payload of PayloadPng is 'h', one byte)
CodePoints == {233}
RECURSIVE SeqsUpTo(_, _)
SeqsUpTo(S, n) ==
    IF n = 0 THEN {<<>>}
    ELSE SeqsUpTo(S, n - 1)
         \cup {Append(q, e) : q \in {r \in SeqsUpTo(S, n - 1) : Len(r) = n - 1}, e \in S}
Messages == SeqsUpTo(CodePoints, MaxMsgLen)

(* ------------------------------- paths -------------------------------- *)

PathImg == <<"img", "png">>
PathBackup == <<"img", "png", "backup">>
PathNoExt == <<"img">>
\* the paths a command is given
CmdPaths == {PathImg, PathBackup, PathNoExt}

\* Path::extension: the part after the last dot of the file name
HasExtension(p) == Len(p) >= 2
Extension(p) == p[Len(p)]
\* PathBuf::set_extension with an extension of several parts
SetExtension(p, e) == SubSeq(p, 1, Len(p) - 1) \o e

\* file.png -> file.png.tmp
generate_temp_path(p) == SetExtension(p, <<Extension(p), "tmp">>)
\* file.png -> file.png.backup
generate_backup_path(p) == SetExtension(p, <<Extension(p), "backup">>)

\* str::ends_with(".backup") and strip_suffix(".backup")
EndsWithBackup(p) == Len(p) >= 2 /\ p[Len(p)] = "backup"
StripBackup(p) == SubSeq(p, 1, Len(p) - 1)

\* the paths restore is given for an image: the image, or its backup file
RestorePaths(p) == {p} \cup (IF HasExtension(p) THEN {generate_backup_path(p)} ELSE {})

\* every path a command can touch
Files ==
    CmdPaths
    \cup {generate_temp_path(p) : p \in {q \in CmdPaths : HasExtension(q)}}
    \cup {generate_backup_path(p) : p \in {q \in CmdPaths : HasExtension(q)}}
    \cup {StripBackup(p) : p \in {q \in CmdPaths : EndsWithBackup(q)}}

(* ---------------------------- file system ----------------------------- *)

Absent == [exists |-> FALSE, bytes |-> <<>>]
File(b) == [exists |-> TRUE, bytes |-> b]

\* what a write that failed after opening the file leaves of the bytes it was
\* writing: the file was created or truncated and none of the bytes reached it
Partials(b) == {SubSeq(b, 1, k) : k \in {0} \cap (0..(Len(b) - 1))}

\* fs::write(p, b)
WriteOk(f, p, b) == [f EXCEPT ![p] = File(b)]
\* a failed fs::write: nothing happened, or the file holds part of the bytes
WriteFailed(f, p, b) == {f} \cup {[f EXCEPT ![p] = File(q)] : q \in Partials(b)}

\* fs::copy(src, dst): dst is opened for writing, truncated and filled
CopyOk(f, src, dst) == [f EXCEPT ![dst] = File(f[src].bytes)]
CopyFailed(f, src, dst) == WriteFailed(f, dst, f[src].bytes)

\* fs::rename(src, dst): dst is replaced in one step, src is gone; a failed
\* rename changes nothing
RenameOk(f, src, dst) == [f EXCEPT ![dst] = f[src], ![src] = Absent]

\* fs::remove_file(p); a failed removal changes nothing
RemoveOk(f, p) == [f EXCEPT ![p] = Absent]

(* --------------------------- initial images --------------------------- *)

\* signature ++ IHDR ++ IEND, the IHDR data not valid UTF-8
MinimalPng == PngBytes(<<NewChunk(IHDR, <<255>>), NewChunk(IEND, <<>>)>>)
\* the same with a payload chunk "ruSt" = "h" already encoded
PayloadPng ==
    PngBytes(<<NewChunk(IHDR, <<255>>), NewChunk(TagRuSt, <<104>>), NewChunk(IEND, <<>>)>>)
\* a container without its IEND chunk
NoIendPng == PngBytes(<<NewChunk(IHDR, <<255>>)>>)
\* a file that is no PNG
NotPng == <<80, 78, 71>>
InitImages == {MinimalPng, PayloadPng, NoIendPng, NotPng}

(* ------------------------------- state -------------------------------- *)

VARIABLES
    fs,        \* the file system: path -> file
    image,     \* the path the commands of this behaviour are given
    pc,        \* where the running command stands ("idle": none is running)
    cmd,       \* the running, or the last completed, command
    content,   \* original_content: the bytes begin_atomic_write returned
    modified,  \* modified_content: the bytes modify_fn returned
    err,       \* the error e held while rollback runs
    faults,    \* file system calls that failed in this command
    result,    \* outcome of the last completed command
    pre,       \* file system when the running/last command started
    lastEnc,   \* the command before it, when that was an encode that committed
    log,       \* the file system calls this command issued, in order
    ncmds,     \* commands started so far
    procs,     \* two processes at once: each process's command and position
    tempBy     \* two processes at once: the process that last touched the temp file

vars == <<fs, image, pc, cmd, content, modified, err, faults, result, pre, lastEnc, log, ncmds,
          procs, tempBy>>

NoOut == [kind |-> "none", val |-> <<>>]
NoCmd == [op |-> "none", path |-> <<>>, tag |-> <<>>, msg |-> <<>>]
NoResult == [status |-> "none", err |-> "", out |-> NoOut]
\* lastEnc: the encode's command and the bytes its target held when it started
NoEnc == [valid |-> FALSE, cmd |-> NoCmd, before |-> <<>>]

\* AtomicFileHandler { target_path, temp_path, backup_path } of the command
Target == cmd.path
Temp == generate_temp_path(cmd.path)
Backup == generate_backup_path(cmd.path)

\* AtomicFileHandler::new: "" when it succeeds, else the error
HandlerNew(f, path) ==
    IF ~f[path].exists THEN "file_does_not_exist"
    ELSE IF ~HasExtension(path) THEN "no_extension"
    ELSE ""

\* One behaviour is a user working on one image: image is any of CmdPaths, it
\* exists with any of the initial contents, and its backup exists (left by an
\* earlier command) or not; restore is also given the backup's own path.
Init ==
    /\ image \in CmdPaths
    /\ fs \in {f \in [Files -> {Absent} \cup {File(b) : b \in InitImages}] :
                 /\ f[image].exists
                 /\ \A p \in Files \ {image} :
                        \/ f[p] = Absent
                        \/ /\ HasExtension(image)
                           /\ p = generate_backup_path(image)
                           /\ f[p] = File(MinimalPng)}
    /\ pc = "idle"
    /\ cmd = NoCmd
    /\ content = <<>>
    /\ modified = <<>>
    /\ err = ""
    /\ faults = 0
    /\ result = NoResult
    /\ pre = fs
    /\ lastEnc = NoEnc
    /\ log = <<>>
    /\ ncmds = 0
    /\ procs = <<>>
    /\ tempBy = 0

\* a file system call may fail while the command has failures left
MayBe(ok) == ok \/ faults < MaxFaults
Count(ok) == faults' = IF ok THEN faults ELSE faults + 1
Call(step, call, dst, ok) ==
    log' = Append(log, [step |-> step, call |-> call, dst |-> dst, ok |-> ok])

\* the command returns
Finish(st, e, o) ==
    /\ pc' = "idle"
    /\ result' = [status |-> st, err |-> e, out |-> o]

\* a command starts; lastEnc remembers the one before it when that was an
\* encode that returned Ok
Begin(c) ==
    /\ pc = "idle"
    /\ ncmds < MaxCmds
    /\ ncmds' = ncmds + 1
    /\ UNCHANGED <<image, procs, tempBy>>
    /\ cmd' = c
    /\ lastEnc' = IF cmd.op = "encode" /\ result.status = "ok"
                  THEN [valid |-> TRUE, cmd |-> cmd, before |-> pre[cmd.path].bytes]
                  ELSE NoEnc
    /\ pre' = fs
    /\ content' = <<>>
    /\ modified' = <<>>
    /\ err' = ""

(* ------------------- the transaction (atomic_file.rs) ------------------ *)

\* faulty variants of the handler's calls: no backup is taken; the copy runs from the
\* backup onto the target; the new bytes are written onto the target itself;
\* rollback leaves the temp file
create_backup_skipped(f, target) == f
create_backup_swapped(f, target) == CopyOk(f, generate_backup_path(target), target)
write_temp_in_place(f, target, data) == WriteOk(f, target, data)
rollback_keeps_temp(f, target) == f
\* faulty variant: the staged bytes go to the backup's path, not the temp file's
write_temp_to_backup_path(f, target, data) == WriteOk(f, generate_backup_path(target), data)
\* faulty variant: commit copies the temp file onto the target and leaves it
commit_by_copy(f, target) == CopyOk(f, generate_temp_path(target), target)

\* faulty variant: a backup that exists is kept, only the first one is taken
create_backup_keep_first(f, target) ==
    IF f[generate_backup_path(target)].exists THEN f
    ELSE CopyOk(f, target, generate_backup_path(target))

\* create_backup / create_backup_silent: fs::copy(target, backup)
create_backup(f, target) == CopyOk(f, target, generate_backup_path(target))
\* write_temp, and the temp write of begin_atomic_write: fs::write(temp, data)
write_temp(f, target, data) == WriteOk(f, generate_temp_path(target), data)
\* commit_atomic_write: fs::rename(temp, target)
commit_atomic_write(f, target) == RenameOk(f, generate_temp_path(target), target)
\* rollback, first half: fs::remove_file(temp)
rollback_remove_temp(f, target) == RemoveOk(f, generate_temp_path(target))
\* rollback, second half: fs::copy(backup, target)
rollback_restore(f, target) == CopyOk(f, generate_backup_path(target), target)

\* begin_atomic_write, step 1: the backup copy; its failure returns at once
BeginBackup ==
    /\ pc = "backup"
    /\ \E ok \in BOOLEAN :
        /\ MayBe(ok) /\ Count(ok) /\ Call("backup", "copy", Backup, ok)
        /\ IF ok
           THEN /\ fs' = create_backup(fs, Target)
                /\ pc' = "read"
                /\ UNCHANGED result
           ELSE /\ fs' \in CopyFailed(fs, Target, Backup)
                /\ Finish("err", "failed_to_create_backup", NoOut)
    /\ UNCHANGED <<procs, tempBy, image, cmd, content, modified, err, pre, lastEnc, ncmds>>

\* begin_atomic_write, step 2: read_file
BeginRead ==
    /\ pc = "read"
    /\ \E ok \in BOOLEAN :
        /\ MayBe(ok) /\ Count(ok) /\ Call("read", "read", <<>>, ok)
        /\ IF ok
           THEN /\ content' = fs[Target].bytes
                /\ pc' = "tempwrite"
                /\ UNCHANGED result
           ELSE /\ Finish("err", "failed_to_read_file", NoOut)
                /\ UNCHANGED content
    /\ UNCHANGED <<procs, tempBy, fs, image, cmd, modified, err, pre, lastEnc, ncmds>>

\* begin_atomic_write, step 3: fs::write(temp, content)
BeginTemp ==
    /\ pc = "tempwrite"
    /\ \E ok \in BOOLEAN :
        /\ MayBe(ok) /\ Count(ok) /\ Call("tempwrite", "write", Temp, ok)
        /\ IF ok
           THEN /\ fs' = write_temp(fs, Target, content)
                /\ pc' = "mutate"
                /\ UNCHANGED result
           ELSE /\ fs' \in WriteFailed(fs, Temp, content)
                /\ Finish("err", "failed_to_create_temporary_file", NoOut)
    /\ UNCHANGED <<procs, tempBy, image, cmd, content, modified, err, pre, lastEnc, ncmds>>

(* ------------------- the closures (commands.rs) ------------------------ *)

Failed(e) == [ok |-> FALSE, bytes |-> <<>>, err |-> e]
Done(b) == [ok |-> TRUE, bytes |-> b, err |-> ""]

\* faulty variant: the payload chunk is appended with IEND left where it is
EncodeChunksAfterIend(cs, tag, msg) == AppendChunk(cs, NewChunk(tag, AsBytes(msg)))

\* encode's chunk list: IEND taken out, the payload chunk appended, IEND
\* appended again
EncodeChunks(cs, tag, msg) ==
    LET k == FirstIndex(cs, IEND)
        end == cs[k]
    IN  AppendChunk(AppendChunk(RemoveAt(cs, k), NewChunk(tag, AsBytes(msg))), end)

\* faulty variant: the closure without its duplicate check
EncodeModifyNoDuplicateCheck(bytes, tag, msg) ==
    LET png == ParsePng(bytes)
    IN  IF ~png.ok THEN Failed("failed_to_parse_png")
        ELSE IF ~HasChunk(png.chunks, IEND) THEN Failed("failed_to_remove_iend")
        ELSE IF ~ChunkTypeOk(tag) THEN Failed("invalid_chunk_type")
        ELSE Done(PngBytes(EncodeChunks(png.chunks, tag, msg)))

\* the closure encode hands to atomic_modify
EncodeModify(bytes, tag, msg) ==
    LET png == ParsePng(bytes)
    IN  IF ~png.ok THEN Failed("failed_to_parse_png")
        ELSE IF HasChunk(png.chunks, tag) THEN Failed("chunk_already_exists")
        ELSE IF ~HasChunk(png.chunks, IEND) THEN Failed("failed_to_remove_iend")
        ELSE IF ~ChunkTypeOk(tag) THEN Failed("invalid_chunk_type")
        ELSE Done(PngBytes(EncodeChunks(png.chunks, tag, msg)))

\* faulty variant: the closure returns the bytes of the container it parsed,
\* the chunk still in it
RemoveModifyKeepsChunk(bytes, tag) ==
    LET png == ParsePng(bytes)
    IN  IF ~png.ok THEN Failed("failed_to_parse_png")
        ELSE IF ~HasChunk(png.chunks, tag) THEN Failed("failed_to_remove_chunk")
        ELSE Done(PngBytes(png.chunks))

\* the closure remove hands to atomic_modify_silent
RemoveModify(bytes, tag) ==
    LET png == ParsePng(bytes)
    IN  IF ~png.ok THEN Failed("failed_to_parse_png")
        ELSE IF ~HasChunk(png.chunks, tag) THEN Failed("failed_to_remove_chunk")
        ELSE Done(PngBytes(RemoveAt(png.chunks, FirstIndex(png.chunks, tag))))

\* modify_fn(original_content) of the running command
ModifyFn(c, bytes) ==
    IF c.op = "encode" THEN EncodeModify(bytes, c.tag, c.msg)
    ELSE RemoveModify(bytes, c.tag)

(* ------------- atomic_modify / atomic_modify_silent, continued --------- *)

\* faulty variant: the step that failed is made again
AfterFailedStepRetry(step) == step

\* where atomic_modify goes when modify_fn, write_temp or commit_atomic_write
\* returns Err: self.rollback()
AfterFailedStep(step) == "rb_remove"

\* match modify_fn(original_content): Ok goes on to write_temp, Err to rollback
Modify ==
    /\ pc = "mutate"
    /\ LET r == ModifyFn(cmd, content)
       IN  /\ Call("mutate", "modify_fn", <<>>, r.ok)
           /\ IF r.ok
              THEN /\ modified' = r.bytes
                   /\ pc' = "write"
                   /\ UNCHANGED err
              ELSE /\ err' = r.err
                   /\ pc' = AfterFailedStep("mutate")
                   /\ UNCHANGED modified
    /\ UNCHANGED <<procs, tempBy, fs, image, cmd, content, faults, result, pre, lastEnc, ncmds>>

\* self.write_temp(&modified_content); on Err, rollback
WriteStaged ==
    /\ pc = "write"
    /\ \E ok \in BOOLEAN :
        /\ MayBe(ok) /\ Count(ok) /\ Call("write", "write", Temp, ok)
        /\ IF ok
           THEN /\ fs' = write_temp(fs, Target, modified)
                /\ pc' = "commit"
                /\ UNCHANGED err
           ELSE /\ fs' \in WriteFailed(fs, Temp, modified)
                /\ err' = "failed_to_write_temporary_file"
                /\ pc' = AfterFailedStep("write")
    /\ UNCHANGED <<procs, tempBy, image, cmd, content, modified, result, pre, lastEnc, ncmds>>

\* self.commit_atomic_write(); on Err, rollback; on Ok the call returns Ok
Commit ==
    /\ pc = "commit"
    /\ \E ok \in BOOLEAN :
        /\ MayBe(ok) /\ Count(ok) /\ Call("commit", "rename", Target, ok)
        /\ IF ok
           THEN /\ fs' = commit_atomic_write(fs, Target)
                /\ Finish("ok", "", [kind |-> "committed", val |-> <<>>])
                /\ UNCHANGED err
           ELSE /\ fs' = fs
                /\ err' = "failed_to_commit"
                /\ pc' = AfterFailedStep("commit")
                /\ UNCHANGED result
    /\ UNCHANGED <<procs, tempBy, image, cmd, content, modified, pre, lastEnc, ncmds>>

\* faulty variant: the result of rollback is dropped and the step's error returned
RollbackErrorDropped(step, e) == e

\* self.rollback()?: the error atomic_modify returns when a call of rollback
\* fails, e being the error of the step that led to the rollback
RollbackError(step, e) ==
    IF step = "rb_remove" THEN "rollback_failed_to_remove_temp"
    ELSE "rollback_failed_to_restore"

\* rollback / rollback_silent: if temp exists, remove it; a failure is
\* returned by `?` in place of e
RollbackRemove ==
    /\ pc = "rb_remove"
    /\ IF fs[Temp].exists
       THEN \E ok \in BOOLEAN :
            /\ MayBe(ok) /\ Count(ok) /\ Call("rb_remove", "remove", Temp, ok)
            /\ IF ok
               THEN /\ fs' = rollback_remove_temp(fs, Target)
                    /\ pc' = "rb_restore"
                    /\ UNCHANGED result
               ELSE /\ fs' = fs
                    /\ Finish("err", RollbackError("rb_remove", err), NoOut)
       ELSE /\ pc' = "rb_restore"
            /\ UNCHANGED <<fs, faults, log, result>>
    /\ UNCHANGED <<procs, tempBy, image, cmd, content, modified, err, pre, lastEnc, ncmds>>

\* rollback / rollback_silent: if backup exists, copy it onto the target;
\* then atomic_modify returns Err(e)
RollbackRestore ==
    /\ pc = "rb_restore"
    /\ IF fs[Backup].exists
       THEN \E ok \in BOOLEAN :
            /\ MayBe(ok) /\ Count(ok) /\ Call("rb_restore", "copy", Target, ok)
            /\ IF ok
               THEN /\ fs' = rollback_restore(fs, Target)
                    /\ Finish("err", err, NoOut)
               ELSE /\ fs' \in CopyFailed(fs, Backup, Target)
                    /\ Finish("err", RollbackError("rb_restore", err), NoOut)
       ELSE /\ Finish("err", err, NoOut)
            /\ UNCHANGED <<fs, faults, log>>
    /\ UNCHANGED <<procs, tempBy, image, cmd, content, modified, err, pre, lastEnc, ncmds>>

(* ------------------------ commands (commands.rs) ----------------------- *)

Cmd(op, path, tag, msg) == [op |-> op, path |-> path, tag |-> tag, msg |-> msg]

\* faulty variant: the check of the third character is left out
EncodePrecheckNoShape(tag) ==
    IF tag \in CriticalNames THEN "critical_chunk_name" ELSE ""

\* encode's checks ahead of the handler: "" when the tag passes, else the error
EncodePrecheck(tag) ==
    IF tag \in CriticalNames THEN "critical_chunk_name"
    ELSE IF Len(tag) = 4 /\ ~IsUpper(tag[3]) THEN "third_character_not_uppercase"
    ELSE ""

\* encode, up to the call of atomic_modify
Encode ==
    \E path \in {image}, tag \in Tags, msg \in Messages :
        /\ Begin(Cmd("encode", path, tag, msg))
        /\ log' = <<>>
        /\ LET e == IF EncodePrecheck(tag) # "" THEN EncodePrecheck(tag)
                    ELSE HandlerNew(fs, path)
           IN  IF e # "" THEN Finish("err", e, NoOut)
               ELSE pc' = "backup" /\ UNCHANGED result
        /\ fs' = fs
        /\ faults' = 0

\* faulty variant: remove does not look for the chunk before it starts the transaction
RemoveCheckParseOnly(bytes, tag) ==
    IF ~ParsePng(bytes).ok THEN "failed_to_parse_png" ELSE ""

\* remove's look at the file ahead of the transaction: "" when the chunk is
\* there, else the outcome
RemoveCheck(bytes, tag) ==
    LET png == ParsePng(bytes)
    IN  IF ~png.ok THEN "failed_to_parse_png"
        ELSE IF ~HasChunk(png.chunks, tag) THEN "chunk_not_found"
        ELSE ""

\* faulty variant: remove has no check for critical names
RemoveIsCriticalNever(tag) == FALSE

\* remove's check for a critical name, ahead of everything else
RemoveIsCritical(tag) == tag \in CriticalNames

\* remove, up to the call of atomic_modify_silent
Remove ==
    \E path \in {image}, tag \in Tags, ok \in BOOLEAN :
        /\ Begin(Cmd("remove", path, tag, <<>>))
        /\ fs' = fs
        /\ IF RemoveIsCritical(tag)
           THEN /\ ok
                /\ Finish("ok", "", [kind |-> "cannot_remove_critical", val |-> <<>>])
                /\ log' = <<>> /\ faults' = 0
           ELSE IF HandlerNew(fs, path) # ""
           THEN /\ ok
                /\ Finish("err", HandlerNew(fs, path), NoOut)
                /\ log' = <<>> /\ faults' = 0
           ELSE /\ log' = <<[step |-> "check", call |-> "read", dst |-> <<>>, ok |-> ok]>>
                /\ faults' = (IF ok THEN 0 ELSE 1)
                /\ IF ~ok THEN Finish("err", "failed_to_read_file", NoOut)
                   ELSE LET r == RemoveCheck(fs[path].bytes, tag)
                        IN  IF r = "failed_to_parse_png"
                            THEN Finish("err", r, NoOut)
                            ELSE IF r = "chunk_not_found"
                            THEN Finish("ok", "", [kind |-> r, val |-> <<>>])
                            ELSE pc' = "backup" /\ UNCHANGED result

\* decode
Decode ==
    \E path \in {image}, tag \in Tags, ok \in BOOLEAN :
        /\ Begin(Cmd("decode", path, tag, <<>>))
        /\ fs' = fs
        /\ IF HandlerNew(fs, path) # ""
           THEN /\ ok
                /\ Finish("err", HandlerNew(fs, path), NoOut)
                /\ log' = <<>> /\ faults' = 0
           ELSE /\ log' = <<[step |-> "check", call |-> "read", dst |-> <<>>, ok |-> ok]>>
                /\ faults' = (IF ok THEN 0 ELSE 1)
                /\ IF ~ok THEN Finish("err", "failed_to_read_file", NoOut)
                   ELSE LET png == ParsePng(fs[path].bytes)
                            k == FirstIndex(png.chunks, tag)
                        IN  IF ~png.ok
                            THEN Finish("err", "failed_to_parse_png", NoOut)
                            ELSE IF k = 0
                            THEN Finish("err", "chunk_type_not_found", NoOut)
                            ELSE IF DataAsString(png.chunks[k]).ok
                            THEN Finish("ok", "", [kind |-> "message",
                                                   val |-> DataAsString(png.chunks[k]).text])
                            ELSE Finish("ok", "", [kind |-> "binary_data", val |-> <<>>])

\* print: the chunk types in order
PrintChunks ==
    \E path \in {image}, ok \in BOOLEAN :
        /\ Begin(Cmd("print", path, <<>>, <<>>))
        /\ fs' = fs
        /\ IF HandlerNew(fs, path) # ""
           THEN /\ ok
                /\ Finish("err", HandlerNew(fs, path), NoOut)
                /\ log' = <<>> /\ faults' = 0
           ELSE /\ log' = <<[step |-> "check", call |-> "read", dst |-> <<>>, ok |-> ok]>>
                /\ faults' = (IF ok THEN 0 ELSE 1)
                /\ IF ~ok THEN Finish("err", "failed_to_read_file", NoOut)
                   ELSE LET png == ParsePng(fs[path].bytes)
                        IN  IF ~png.ok
                            THEN Finish("err", "failed_to_parse_png", NoOut)
                            ELSE Finish("ok", "",
                                        [kind |-> "chunks",
                                         val |-> [i \in 1..Len(png.chunks) |->
                                                    png.chunks[i].type]])

\* faulty variants: restore copies the target onto the backup; restore reports
\* success without copying
restore_original_swapped(f, target) == CopyOk(f, target, generate_backup_path(target))
restore_original_no_copy(f, target) == f

\* AtomicFileHandler::restore_original: fs::copy(backup, target)
restore_original(f, target) == CopyOk(f, generate_backup_path(target), target)

\* restore: a path ending in ".backup" is taken as the backup itself and copied
\* onto the path without the suffix; any other path goes through the handler
Restore ==
    \E path \in RestorePaths(image), ok \in BOOLEAN :
        /\ Begin(Cmd("restore", path, <<>>, <<>>))
        /\ IF EndsWithBackup(path)
           THEN IF ~fs[path].exists
                THEN /\ ok
                     /\ Finish("err", "backup_file_not_found", NoOut)
                     /\ fs' = fs /\ log' = <<>> /\ faults' = 0
                ELSE /\ log' = <<[step |-> "restore", call |-> "copy",
                                  dst |-> StripBackup(path), ok |-> ok]>>
                     /\ MayBe(ok) /\ Count(ok)
                     /\ IF ok
                        THEN /\ fs' = CopyOk(fs, path, StripBackup(path))
                             /\ Finish("ok", "", [kind |-> "restored", val |-> <<>>])
                        ELSE /\ fs' \in CopyFailed(fs, path, StripBackup(path))
                             /\ Finish("err", "failed_to_restore_from_backup", NoOut)
           ELSE IF HandlerNew(fs, path) # ""
           THEN /\ ok
                /\ Finish("err", HandlerNew(fs, path), NoOut)
                /\ fs' = fs /\ log' = <<>> /\ faults' = 0
           ELSE IF ~fs[generate_backup_path(path)].exists
           THEN /\ ok
                /\ Finish("err", "no_backup_found", NoOut)
                /\ fs' = fs /\ log' = <<>> /\ faults' = 0
           ELSE /\ log' = <<[step |-> "restore", call |-> "copy",
                             dst |-> path, ok |-> ok]>>
                /\ MayBe(ok) /\ Count(ok)
                /\ IF ok
                   THEN /\ fs' = restore_original(fs, path)
                        /\ Finish("ok", "", [kind |-> "restored", val |-> <<>>])
                   ELSE /\ fs' \in CopyFailed(fs, generate_backup_path(path), path)
                        /\ Finish("err", "failed_to_restore_original_file", NoOut)

\* faulty variant: cleanup leaves the backup file
cleanup_keeps_backup(f, target) == f

\* cleanup's two removals: fs::remove_file(temp), fs::remove_file(backup)
cleanup_remove_temp(f, target) == RemoveOk(f, generate_temp_path(target))
cleanup_remove_backup(f, target) == RemoveOk(f, generate_backup_path(target))

\* AtomicFileHandler::cleanup: remove temp if it exists, then backup if it
\* exists; okT, okB say whether each removal that is made succeeds
Cleanup ==
    \E path \in {image}, okT \in BOOLEAN, okB \in BOOLEAN :
        /\ Begin(Cmd("cleanup", path, <<>>, <<>>))
        /\ IF HandlerNew(fs, path) # ""
           THEN /\ okT /\ okB
                /\ Finish("err", HandlerNew(fs, path), NoOut)
                /\ fs' = fs /\ log' = <<>> /\ faults' = 0
           ELSE LET t == generate_temp_path(path)
                    b == generate_backup_path(path)
                    hasT == fs[t].exists
                    hasB == fs[b].exists
                    triedB == hasB /\ okT
                    callT == IF hasT
                             THEN <<[step |-> "cleanup", call |-> "remove",
                                     dst |-> t, ok |-> okT]>>
                             ELSE <<>>
                    callB == IF triedB
                             THEN <<[step |-> "cleanup", call |-> "remove",
                                     dst |-> b, ok |-> okB]>>
                             ELSE <<>>
                    f1 == IF hasT /\ okT THEN cleanup_remove_temp(fs, path) ELSE fs
                    f2 == IF triedB /\ okB THEN cleanup_remove_backup(f1, path) ELSE f1
                IN  /\ (~hasT => okT)
                    /\ (~triedB => okB)
                    /\ fs' = f2
                    /\ log' = callT \o callB
                    /\ faults' = (IF okT THEN 0 ELSE 1) + (IF okB THEN 0 ELSE 1)
                    /\ faults' <= MaxFaults
                    /\ IF ~okT THEN Finish("err", "failed_to_remove_temp_file", NoOut)
                       ELSE IF ~okB
                       THEN Finish("err", "failed_to_remove_backup_file", NoOut)
                       ELSE Finish("ok", "",
                                   [kind |-> "cleaned",
                                    val |-> (IF hasT THEN <<"temp file">> ELSE <<>>)
                                            \o (IF hasB THEN <<"backup file">> ELSE <<>>)])

\* status: whether the target and the backup exist
Status ==
    \E path \in {image} :
        /\ Begin(Cmd("status", path, <<>>, <<>>))
        /\ fs' = fs /\ log' = <<>> /\ faults' = 0
        /\ IF HandlerNew(fs, path) # ""
           THEN Finish("err", HandlerNew(fs, path), NoOut)
           ELSE Finish("ok", "",
                       [kind |-> "status",
                        val |-> <<fs[path].exists, fs[generate_backup_path(path)].exists>>])

(* --------------------------- specification ---------------------------- *)

Next ==
    \/ Encode
    \/ Remove
    \/ Decode
    \/ PrintChunks
    \/ Restore
    \/ Cleanup
    \/ Status
    \/ BeginBackup
    \/ BeginRead
    \/ BeginTemp
    \/ Modify
    \/ WriteStaged
    \/ Commit
    \/ RollbackRemove
    \/ RollbackRestore

Spec == Init /\ [][Next]_vars

(* ------------------------ what the claims speak of --------------------- *)

\* a command has returned and none is running
Returned == pc = "idle" /\ result.status # "none"

\* the running or last command called atomic_modify / atomic_modify_silent
TxBegan == \E i \in DOMAIN log : log[i].step = "backup"
InTx == cmd.op \in {"encode", "remove"} /\ TxBegan

StepOk(step) == \E i \in DOMAIN log : log[i].step = step /\ log[i].ok
StepFailed(step) == \E i \in DOMAIN log : log[i].step = step /\ ~log[i].ok
\* steps of the command that failed, the mutate function and rollback's included
Failures == Cardinality({i \in DOMAIN log : ~log[i].ok})

\* the target's bytes when the command started
PreBytes == pre[cmd.path].bytes

\* the calls that write the path they are given
WritingCalls == {"copy", "write", "rename", "remove"}

(* ------------------------------- C1 ----------------------------------- *)

\* C1: when atomic_modify / atomic_modify_silent returns from a run in which
\* at most one step failed, the target holds exactly its pre-transaction bytes
\* or exactly the bytes the mutate function returned.
C1_UnchangedOrCommitted ==
    (InTx /\ Returned /\ Failures <= 1) =>
        /\ fs[Target].exists
        /\ \/ fs[Target].bytes = PreBytes
           \/ StepOk("mutate") /\ fs[Target].bytes = modified

\* a run with one failure that rolled back, and a run that committed new bytes
C1_Witness ==
    /\ InTx /\ Returned /\ Failures = 1 /\ StepFailed("commit") /\ StepOk("rb_restore")
    /\ fs[Target].bytes = PreBytes /\ modified # PreBytes

(* ------------------------------- C2 ----------------------------------- *)

\* C2 as stated: in a transaction the commit rename is the only step that
\* writes to the target path; rollback does not.
C2_OnlyCommitWritesTarget ==
    InTx => \A i \in DOMAIN log :
                (log[i].call \in WritingCalls /\ log[i].dst = Target)
                    => log[i].step = "commit"

\* C2 amended: the target path is written by the commit rename and by
\* rollback's copy of the backup onto it, and by no other step; until one of
\* the two has run the target holds its pre-transaction bytes, after a commit
\* that succeeded it holds the mutate result, and it holds anything else (a
\* partially written file) only after rollback's copy has failed.
C2_CommitOrRollbackWriteTarget ==
    InTx =>
        /\ \A i \in DOMAIN log :
                (log[i].call \in WritingCalls /\ log[i].dst = Target)
                    => log[i].step \in {"commit", "rb_restore"}
        /\ (~StepOk("commit") /\ ~StepFailed("rb_restore")) => fs[Target] = File(PreBytes)
        /\ StepOk("commit") => fs[Target] = File(modified)
        /\ fs[Target] \notin {File(PreBytes), File(modified)} => StepFailed("rb_restore")

\* rollback's copy has run, on a target the transaction never changed
C2_Witness ==
    /\ InTx /\ StepOk("rb_restore") /\ StepFailed("write")
    /\ fs[Target] = File(PreBytes)

(* ------------------------------- C3 ----------------------------------- *)

\* C3: from the moment the backup copy has completed until the call returns,
\* after every step, the complete pre-transaction bytes are in the target or
\* in the backup; and the commit rename runs only while the backup exists and
\* holds those bytes.
C3_Recoverable ==
    (InTx /\ StepOk("backup")) =>
        /\ \/ fs[Target] = File(PreBytes)
           \/ fs[Backup] = File(PreBytes)
        /\ (pc = "commit" \/ StepOk("commit") \/ StepFailed("commit"))
                => fs[Backup] = File(PreBytes)

\* the target was overwritten by a failed rollback copy and the backup holds
\* the bytes
C3_Witness ==
    /\ InTx /\ StepOk("backup") /\ StepFailed("rb_restore")
    /\ fs[Target] # File(PreBytes)
    /\ fs[Backup] = File(PreBytes)

(* ------------------------------- C4 ----------------------------------- *)

\* C4 as stated: if the staged write failed, then when the call returns the
\* target holds its pre-transaction bytes and there is no temp file.
C4_StagedWriteFailure ==
    (InTx /\ Returned /\ StepFailed("write")) =>
        fs[Target] = File(PreBytes) /\ ~fs[Temp].exists

\* C4 amended: if the staged write failed and the call returns that failure
\* (the rollback that followed did not fail itself), the target holds its
\* pre-transaction bytes and there is no temp file.
C4_StagedWriteFailureRolledBack ==
    (InTx /\ Returned /\ StepFailed("write")
          /\ result.err = "failed_to_write_temporary_file") =>
        fs[Target] = File(PreBytes) /\ ~fs[Temp].exists

\* a staged write failed leaving a truncated temp file, and the rollback removed it
C4_Witness ==
    /\ InTx /\ Returned /\ StepFailed("write")
    /\ result.err = "failed_to_write_temporary_file"
    /\ \E i \in DOMAIN log : log[i].step = "rb_remove" /\ log[i].ok
    /\ fs[Target] = File(PreBytes) /\ ~fs[Temp].exists

(* ------------------------------- C5 ----------------------------------- *)

\* the command before this one was an encode of the same path that committed
AfterEncodeOf(path) == lastEnc.valid /\ lastEnc.cmd.path = path

\* C5 as stated: after a successful encode(path, tag, payload), a restore(path)
\* that succeeds leaves the target with the bytes it held before the encode.
C5_RestoreAfterEncode ==
    (Returned /\ cmd.op = "restore" /\ result.status = "ok" /\ AfterEncodeOf(cmd.path))
        => fs[cmd.path] = File(lastEnc.before)

\* C5 amended: the same for a path that does not end in ".backup"; restore
\* takes a path ending in ".backup" for a backup file and copies it onto the
\* path without the suffix, leaving the path itself as the encode left it.
C5_RestoreAfterEncodeNotBackupPath ==
    (Returned /\ cmd.op = "restore" /\ result.status = "ok" /\ AfterEncodeOf(cmd.path)
              /\ ~EndsWithBackup(cmd.path))
        => fs[cmd.path] = File(lastEnc.before)

\* encode added a chunk to img.png and restore brought the old bytes back
C5_Witness ==
    /\ Returned /\ cmd.op = "restore" /\ result.status = "ok" /\ AfterEncodeOf(cmd.path)
    /\ ~EndsWithBackup(cmd.path)
    /\ pre[cmd.path] # File(lastEnc.before)
    /\ fs[cmd.path] = File(lastEnc.before)

(* ------------------------------- C6 ----------------------------------- *)

\* the errors encode's business rules give
ValidationErrors ==
    {"critical_chunk_name", "third_character_not_uppercase", "chunk_already_exists"}

\* C6: an encode whose tag is a critical name, or has 4 characters the third of
\* which is not uppercase, returns that validation error and changes no file;
\* an encode that returns the duplicate-chunk error leaves the target with the
\* bytes it had before the call; each of the three returns an error.
C6_RejectedEncodeLeavesTarget ==
    (Returned /\ cmd.op = "encode") =>
        /\ (cmd.tag \in CriticalNames) =>
                result.status = "err" /\ result.err = "critical_chunk_name" /\ fs = pre
        /\ (cmd.tag \notin CriticalNames /\ Len(cmd.tag) = 4 /\ ~IsUpper(cmd.tag[3])) =>
                result.status = "err" /\ result.err = "third_character_not_uppercase"
                /\ fs = pre
        /\ (result.err \in ValidationErrors) =>
                result.status = "err" /\ fs[cmd.path] = pre[cmd.path]

\* a duplicate tag was rejected inside the transaction and rolled back
C6_Witness ==
    /\ Returned /\ cmd.op = "encode" /\ result.err = "chunk_already_exists"
    /\ StepOk("rb_restore")
    /\ fs[cmd.path] = pre[cmd.path]

(* ------------------------------- C7 ----------------------------------- *)

\* the chunks of a file, none when it is no PNG container
ChunksOf(file) == IF file.exists THEN ParsePng(file.bytes).chunks ELSE <<>>
CountOf(cs, tag) == Cardinality({i \in DOMAIN cs : cs[i].type = tag})
\* at most one chunk per payload tag
OnePerTag(cs) ==
    \A i, j \in DOMAIN cs :
        (cs[i].type = cs[j].type /\ cs[i].type \notin CriticalNames) => i = j

\* C7: an encode or remove command on a file that holds at most one chunk per
\* payload tag leaves at most one chunk per payload tag; an encode of a tag the
\* file already holds returns an error and adds no chunk.
C7_OneChunkPerTag ==
    (Returned /\ cmd.op \in {"encode", "remove"} /\ OnePerTag(ChunksOf(pre[image]))) =>
        /\ OnePerTag(ChunksOf(fs[image]))
        /\ (cmd.op = "encode" /\ HasChunk(ChunksOf(pre[image]), cmd.tag)) =>
                /\ result.status = "err"
                /\ CountOf(ChunksOf(fs[image]), cmd.tag)
                        <= CountOf(ChunksOf(pre[image]), cmd.tag)

\* the payload tag the file holds was encoded again and there is still one
C7_Witness ==
    /\ Returned /\ cmd.op = "encode" /\ cmd.tag \notin CriticalNames
    /\ HasChunk(ChunksOf(pre[image]), cmd.tag)
    /\ result.err = "chunk_already_exists"
    /\ CountOf(ChunksOf(fs[image]), cmd.tag) = 1

(* ------------------------------- C8 ----------------------------------- *)

\* the container's only IEND chunk is its last chunk
IendOnlyLast(cs) ==
    /\ Len(cs) >= 1
    /\ cs[Len(cs)].type = IEND
    /\ \A i \in 1..(Len(cs) - 1) : cs[i].type # IEND

\* the container a file holds: a PNG whose only IEND chunk is last
IsContainer(file) ==
    file.exists /\ ParsePng(file.bytes).ok /\ IendOnlyLast(ParsePng(file.bytes).chunks)

\* C8: a successful encode or remove on a container whose only IEND chunk is
\* its last chunk leaves such a container; a successful encode leaves the
\* chunks it found, in their order, with the new payload chunk put immediately
\* before IEND.
C8_IendStaysLast ==
    (Returned /\ cmd.op \in {"encode", "remove"} /\ result.status = "ok"
              /\ IsContainer(pre[image])) =>
        /\ IsContainer(fs[image])
        /\ cmd.op = "encode" =>
            LET old == ChunksOf(pre[image])
                n == Len(old)
            IN  ChunksOf(fs[image])
                    = SubSeq(old, 1, n - 1)
                        \o <<NewChunk(cmd.tag, AsBytes(cmd.msg)), old[n]>>

\* a second payload chunk went in between the first one and IEND
C8_Witness ==
    /\ Returned /\ cmd.op = "encode" /\ result.status = "ok"
    /\ IsContainer(pre[image]) /\ Len(ChunksOf(pre[image])) = 3
    /\ Len(ChunksOf(fs[image])) = 4
    /\ ChunksOf(fs[image])[3].type = cmd.tag
    /\ ChunksOf(fs[image])[4].type = IEND

(* ------------------------------- C9 ----------------------------------- *)

\* C9: after an encode(path, tag, payload) that succeeded (so the tag is no
\* critical name, has its third character uppercase and was not in the file),
\* a decode(path, tag) that reads the file reports exactly the payload.
C9_EncodeThenDecode ==
    (Returned /\ cmd.op = "decode" /\ AfterEncodeOf(cmd.path)
              /\ lastEnc.cmd.tag = cmd.tag /\ StepOk("check")) =>
        /\ result.status = "ok"
        /\ result.out = [kind |-> "message", val |-> lastEnc.cmd.msg]

\* a payload of two UTF-8 bytes came back as the code point that was encoded
C9_Witness ==
    /\ Returned /\ cmd.op = "decode" /\ AfterEncodeOf(cmd.path)
    /\ lastEnc.cmd.tag = cmd.tag /\ StepOk("check")
    /\ lastEnc.cmd.msg # <<>>
    /\ result.out = [kind |-> "message", val |-> lastEnc.cmd.msg]
    /\ Len(AsBytes(lastEnc.cmd.msg)) > Len(lastEnc.cmd.msg)

(* ------------------------------- C10 ---------------------------------- *)

\* C10: remove(path, tag), on a path the handler accepts whose file is read
\* and is a PNG container holding no chunk with the tag, returns success,
\* changes no file and calls neither atomic_modify nor any call that writes:
\* no backup and no temp file is created or overwritten.
C10_RemoveAbsentTag ==
    (Returned /\ cmd.op = "remove" /\ HandlerNew(pre, cmd.path) = ""
              /\ ~StepFailed("check")
              /\ ParsePng(PreBytes).ok /\ ~HasChunk(ParsePng(PreBytes).chunks, cmd.tag)) =>
        /\ result.status = "ok"
        /\ fs = pre
        /\ ~TxBegan
        /\ \A i \in DOMAIN log : log[i].call \notin WritingCalls

\* the not-found outcome, on a file that has a stale backup beside it
C10_Witness ==
    /\ Returned /\ cmd.op = "remove" /\ cmd.tag \notin CriticalNames
    /\ result = [status |-> "ok", err |-> "",
                 out |-> [kind |-> "chunk_not_found", val |-> <<>>]]
    /\ fs[generate_backup_path(cmd.path)].exists
    /\ fs = pre

(* ------------------------------- C11 ---------------------------------- *)

\* C11: remove(path, tag) with a critical name for tag returns success, makes
\* no file system call and leaves every file (target, temp, backup) as it
\* was; encode with such a tag returns the critical-name error.
C11_CriticalRemoveIsNoOp ==
    (Returned /\ cmd.tag \in CriticalNames) =>
        /\ cmd.op = "remove" =>
                /\ result.status = "ok" /\ result.err = ""
                /\ fs = pre
                /\ log = <<>>
        /\ cmd.op = "encode" =>
                result.status = "err" /\ result.err = "critical_chunk_name"

\* remove of IEND, which the file holds, beside a backup that stays as it is
C11_Witness ==
    /\ Returned /\ cmd.op = "remove" /\ cmd.tag = IEND
    /\ HasChunk(ChunksOf(fs[cmd.path]), IEND)
    /\ HasExtension(cmd.path) /\ fs[generate_backup_path(cmd.path)].exists
    /\ result.status = "ok" /\ fs = pre

(* ------------------------------- C12 ---------------------------------- *)

\* the errors that say a file is not there
NotFoundErrors == {"no_backup_found", "backup_file_not_found", "file_does_not_exist"}

\* the backup file of a path, if the path can have one
BackupExists(f, path) == HasExtension(path) /\ f[generate_backup_path(path)].exists

\* C12 as stated, for a path that can have a backup file (one with an
\* extension): restore(path) fails with a not-found error and leaves the
\* target unchanged when path has no backup file; when it has one, restore
\* leaves the target with the backup's bytes and the backup as it was. A
\* restore in which a copy failed is left aside.
C12_RestoreFromBackup ==
    (Returned /\ cmd.op = "restore" /\ HasExtension(cmd.path) /\ ~StepFailed("restore")) =>
        /\ ~BackupExists(pre, cmd.path) =>
                /\ result.status = "err" /\ result.err \in NotFoundErrors
                /\ fs[cmd.path] = pre[cmd.path]
        /\ BackupExists(pre, cmd.path) =>
                /\ fs[cmd.path].bytes = pre[generate_backup_path(cmd.path)].bytes
                /\ fs[generate_backup_path(cmd.path)] = pre[generate_backup_path(cmd.path)]

\* the file restore copies from and the file it copies onto
RestoreFrom(path) == IF EndsWithBackup(path) THEN path ELSE generate_backup_path(path)
RestoreOnto(path) == IF EndsWithBackup(path) THEN StripBackup(path) ELSE path

\* C12 amended: for the path of an existing file with an extension other than
\* ".backup", restore is as stated, the not-found error being the no-backup
\* error and no file changing with it. A path ending in ".backup" is taken for
\* the backup itself and the path without the suffix for the target: restore
\* fails with the backup-not-found error, changing nothing, when the path does
\* not exist, and otherwise copies it onto the path without the suffix. A
\* restore whose copy does not fail returns success and changes no other file.
C12_RestoreFromBackupOntoItsTarget ==
    (Returned /\ cmd.op = "restore" /\ HasExtension(cmd.path)) =>
        LET from == RestoreFrom(cmd.path)
            onto == RestoreOnto(cmd.path)
        IN  /\ ~pre[from].exists =>
                    /\ result.status = "err"
                    /\ result.err = (IF EndsWithBackup(cmd.path)
                                     THEN "backup_file_not_found" ELSE "no_backup_found")
                    /\ fs = pre
            /\ (pre[from].exists /\ ~StepFailed("restore")) =>
                    /\ result.status = "ok"
                    /\ fs[onto] = File(pre[from].bytes)
                    /\ \A p \in Files \ {onto} : fs[p] = pre[p]

\* restore of an image a payload was in brought back the backup's other bytes
C12_Witness ==
    /\ Returned /\ cmd.op = "restore" /\ ~EndsWithBackup(cmd.path)
    /\ result.status = "ok"
    /\ pre[cmd.path].bytes # pre[generate_backup_path(cmd.path)].bytes
    /\ fs[cmd.path].bytes = pre[generate_backup_path(cmd.path)].bytes
    /\ fs[generate_backup_path(cmd.path)].exists

(* ------------------------------- C13 ---------------------------------- *)

\* C13: cleanup on a path the handler accepts never changes the target; when
\* no removal fails it returns success, also when there is neither a temp nor
\* a backup file (and then it makes no file system call); after a cleanup
\* that returned success neither the temp nor the backup file exists and no
\* other file has changed.
C13_CleanupRemovesTempAndBackup ==
    (Returned /\ cmd.op = "cleanup" /\ HandlerNew(pre, cmd.path) = "") =>
        /\ fs[Target] = pre[Target]
        /\ Failures = 0 => result.status = "ok"
        /\ (~pre[Temp].exists /\ ~pre[Backup].exists) =>
                result.status = "ok" /\ fs = pre /\ log = <<>>
        /\ result.status = "ok" =>
                /\ ~fs[Temp].exists /\ ~fs[Backup].exists
                /\ \A p \in Files \ {Temp, Backup} : fs[p] = pre[p]

\* a temp file left by a command that failed and the backup beside it are
\* both removed
C13_Witness ==
    /\ Returned /\ cmd.op = "cleanup" /\ result.status = "ok"
    /\ HandlerNew(pre, cmd.path) = ""
    /\ pre[Temp].exists /\ pre[Backup].exists
    /\ ~fs[Temp].exists /\ ~fs[Backup].exists
    /\ fs[Target] = pre[Target]

(* ------------------------------- C14 ---------------------------------- *)

\* C14: an encode that is rejected by a business rule (critical name, third
\* character not uppercase, duplicate tag) is rejected before the transaction
\* begins: atomic_modify is not called, no call writes a backup or a temp
\* file, and every file is as it was.
C14_RejectedBeforeTransaction ==
    (Returned /\ cmd.op = "encode" /\ result.err \in ValidationErrors) =>
        /\ ~TxBegan
        /\ \A i \in DOMAIN log : log[i].call \notin WritingCalls
        /\ fs = pre

(* ------------------------------- C15 ---------------------------------- *)

\* the steps of begin_atomic_write, the steps atomic_modify makes after it,
\* and the two calls of rollback
BeginSteps == {"backup", "read", "tempwrite"}
ModifySteps == {"mutate", "write", "commit"}
RollbackSteps == {"rb_remove", "rb_restore"}

\* rollback is what follows the i-th call of the command
RollbackFollows(i) ==
    IF i < Len(log) THEN log[i + 1].step = "rb_remove" ELSE pc = "rb_remove"

\* no step that failed is made again
NoStepRepeated ==
    \A i, j \in DOMAIN log : (i < j /\ ~log[i].ok) => log[j].step # log[i].step

\* C15 as stated: in a transaction the failure of any step (backup copy, read,
\* initial temp write, mutate, staged write, commit rename) is followed at
\* once by rollback, and no failed step is made again.
C15_AnyFailureRollsBack ==
    InTx =>
        /\ \A i \in DOMAIN log :
                (log[i].step \in BeginSteps \cup ModifySteps /\ ~log[i].ok)
                    => RollbackFollows(i)
        /\ NoStepRepeated

\* the error each step of begin_atomic_write returns
BeginError(step) ==
    IF step = "backup" THEN "failed_to_create_backup"
    ELSE IF step = "read" THEN "failed_to_read_file"
    ELSE "failed_to_create_temporary_file"

\* C15 amended: the failure of mutate, of the staged write or of the commit
\* rename is followed at once by rollback (the removal of the temp file, then
\* the copy of the backup onto the target) before the call returns; the
\* failure of a step of begin (backup copy, read, initial temp write) makes the
\* call return that step's error at once, with no rollback; and no failed
\* step is made again.
C15_FailureAfterBeginRollsBack ==
    InTx =>
        /\ \A i \in DOMAIN log :
                (log[i].step \in ModifySteps /\ ~log[i].ok) =>
                    /\ RollbackFollows(i)
                    /\ Returned => /\ i < Len(log)
                                    /\ log[i + 1].ok =>
                                            /\ i + 1 < Len(log)
                                            /\ log[i + 2].step = "rb_restore"
        /\ \A i \in DOMAIN log :
                (log[i].step \in BeginSteps /\ ~log[i].ok) =>
                    /\ i = Len(log)
                    /\ Returned
                    /\ result.status = "err" /\ result.err = BeginError(log[i].step)
        /\ NoStepRepeated

\* the commit rename failed, rollback ran both its calls and the call
\* returned the commit's error
C15_Witness ==
    /\ InTx /\ Returned /\ StepFailed("commit")
    /\ StepOk("rb_remove") /\ StepOk("rb_restore")
    /\ result.err = "failed_to_commit"

(* ------------------------------- C16 ---------------------------------- *)

\* the errors of rollback's two calls
RollbackErrors == {"rollback_failed_to_remove_temp", "rollback_failed_to_restore"}

\* C16: when a step of a transaction failed and a call of the rollback that
\* followed failed too, atomic_modify returns an error, and the error is the
\* one of the rollback call that failed, not the error of the step.
C16_RollbackFailureReported ==
    (InTx /\ Returned /\ (StepFailed("rb_remove") \/ StepFailed("rb_restore"))) =>
        /\ result.status = "err"
        /\ result.err \in RollbackErrors
        /\ result.err # err
        /\ StepFailed("rb_remove") => result.err = "rollback_failed_to_remove_temp"
        /\ StepFailed("rb_restore") => result.err = "rollback_failed_to_restore"

\* the staged write failed, then rollback's copy of the backup failed
C16_Witness ==
    /\ InTx /\ Returned /\ StepFailed("write") /\ StepFailed("rb_restore")
    /\ err = "failed_to_write_temporary_file"
    /\ result = [status |-> "err", err |-> "rollback_failed_to_restore", out |-> NoOut]

(* ------------------------------- C17 ---------------------------------- *)

\* C17: when atomic_modify / atomic_modify_silent returns success, the target
\* holds exactly the bytes the mutate function returned for the
\* pre-transaction bytes, there is no temp file, and the backup file exists
\* and holds the pre-transaction bytes.
C17_CommittedState ==
    (InTx /\ Returned /\ result.status = "ok") =>
        /\ ModifyFn(cmd, PreBytes).ok
        /\ modified = ModifyFn(cmd, PreBytes).bytes
        /\ fs[Target] = File(modified)
        /\ ~fs[Temp].exists
        /\ fs[Backup] = File(PreBytes)

\* a commit that changed the target, beside a backup that held other bytes
\* before the transaction
C17_Witness ==
    /\ InTx /\ Returned /\ result.status = "ok"
    /\ pre[Backup].exists /\ pre[Backup].bytes # PreBytes
    /\ fs[Target].bytes # PreBytes
    /\ fs[Backup] = File(PreBytes)

(* ------------------------------- C18 ---------------------------------- *)

\* C18: there is one backup file per target, and each encode or remove
\* command either begins no transaction and leaves every file as it was, or,
\* once its backup copy has completed, keeps the backup holding the bytes the
\* target had when the transaction began, through every later step: mutate's
\* rejection, rollback and commit included. The transaction changes no file
\* but the target, the temp file and that one backup. So after any sequence of
\* such commands the backup holds the target's bytes as of the start of the
\* transaction begun last.
C18_OneBackupGeneration ==
    cmd.op \in {"encode", "remove"} =>
        /\ ~TxBegan => fs = pre
        /\ (TxBegan /\ StepOk("backup")) =>
                /\ fs[Backup] = File(PreBytes)
                /\ \A p \in Files \ {Target, Temp, Backup} : fs[p] = pre[p]

\* after an encode that committed, an encode of the same tag was rejected as a
\* duplicate and rolled back: the backup no longer holds the bytes from before
\* the first encode but those from before the second
C18_Witness ==
    /\ Returned /\ cmd.op = "encode" /\ AfterEncodeOf(cmd.path)
    /\ InTx /\ StepFailed("mutate") /\ result.err = "chunk_already_exists"
    /\ pre[Backup] = File(lastEnc.before)
    /\ PreBytes # lastEnc.before
    /\ fs[Backup] = File(PreBytes)

(* ------------------------------- C19 ---------------------------------- *)

\* C19: on a container whose only IEND chunk is last and that does not hold
\* tag t, an encode(path, t, payload) that succeeded followed by a
\* remove(path, t) that succeeded leaves the container with the chunk sequence
\* it had before the encode.
C19_EncodeThenRemove ==
    (Returned /\ cmd.op = "remove" /\ result.status = "ok"
              /\ AfterEncodeOf(cmd.path) /\ lastEnc.cmd.tag = cmd.tag
              /\ IsContainer(File(lastEnc.before))
              /\ ~HasChunk(ChunksOf(File(lastEnc.before)), cmd.tag)) =>
        /\ ParsePng(fs[cmd.path].bytes).ok
        /\ ChunksOf(fs[cmd.path]) = ChunksOf(File(lastEnc.before))

\* the payload chunk went in beside another one and was taken out again by
\* a transaction that committed
C19_Witness ==
    /\ Returned /\ cmd.op = "remove" /\ result.status = "ok"
    /\ AfterEncodeOf(cmd.path) /\ lastEnc.cmd.tag = cmd.tag
    /\ InTx /\ StepOk("commit")
    /\ Len(ChunksOf(File(lastEnc.before))) = 3
    /\ Len(ChunksOf(pre[cmd.path])) = 4
    /\ ChunksOf(fs[cmd.path]) = ChunksOf(File(lastEnc.before))

(* -------- two processes on one target path (atomic_file.rs) ------------ *)

\* Two processes each run one encode or remove on the same path. Every file
\* system call is one step, and the steps of the two interleave in any order;
\* a call fails only when the file it needs is not there.
Procs == {1, 2}
RacePath == PathImg
RaceTemp == generate_temp_path(RacePath)
RaceBackup == generate_backup_path(RacePath)

\* the commands the processes are given
RaceCmds ==
    {Cmd("encode", RacePath, tag, msg) : tag \in {TagRuSt, TagTeXt}, msg \in Messages}
    \cup {Cmd("remove", RacePath, TagRuSt, <<>>)}

\* pub: what the process's commit rename did: the bytes it made the target
\* hold, or that the temp file was gone, and the process that touched the temp
\* file last before it
NoPub == [kind |-> "none", bytes |-> <<>>, by |-> 0]
IdleProc ==
    [pc |-> "idle", cmd |-> NoCmd, content |-> <<>>, modified |-> <<>>, err |-> "",
     result |-> NoResult, pub |-> NoPub]

\* the variables of the one-process specification
SeqVars == <<image, pc, cmd, content, modified, err, faults, result, pre, lastEnc, log, ncmds>>

RaceInit ==
    /\ image = RacePath
    /\ fs \in {[p \in Files |-> IF p = RacePath THEN File(b) ELSE Absent] :
                b \in {MinimalPng, PayloadPng}}
    /\ pc = "idle"
    /\ cmd = NoCmd
    /\ content = <<>>
    /\ modified = <<>>
    /\ err = ""
    /\ faults = 0
    /\ result = NoResult
    /\ pre = fs
    /\ lastEnc = NoEnc
    /\ log = <<>>
    /\ ncmds = 0
    /\ procs = [p \in Procs |-> IdleProc]
    /\ tempBy = 0

\* process p returns
ProcReturns(p, st, e) ==
    [procs EXCEPT ![p].pc = "done", ![p].result = [status |-> st, err |-> e, out |-> NoOut]]

\* encode / remove of process p, up to the call of atomic_modify
RaceStart(p) ==
    /\ procs[p].pc = "idle"
    /\ \E c \in RaceCmds :
        LET e == IF c.op = "encode" /\ EncodePrecheck(c.tag) # "" THEN EncodePrecheck(c.tag)
                 ELSE HandlerNew(fs, c.path)
            r == IF c.op = "remove" THEN RemoveCheck(fs[c.path].bytes, c.tag) ELSE ""
            q == [procs EXCEPT ![p].cmd = c]
        IN  procs' = IF c.op = "remove" /\ RemoveIsCritical(c.tag)
                        THEN [q EXCEPT ![p].pc = "done",
                                       ![p].result = [status |-> "ok", err |-> "", out |-> NoOut]]
                     ELSE IF e # ""
                        THEN [q EXCEPT ![p].pc = "done",
                                       ![p].result = [status |-> "err", err |-> e, out |-> NoOut]]
                     ELSE IF r = "failed_to_parse_png"
                        THEN [q EXCEPT ![p].pc = "done",
                                       ![p].result = [status |-> "err", err |-> r, out |-> NoOut]]
                     ELSE IF r = "chunk_not_found"
                        THEN [q EXCEPT ![p].pc = "done",
                                       ![p].result = [status |-> "ok", err |-> "", out |-> NoOut]]
                     ELSE [q EXCEPT ![p].pc = "backup"]
    /\ UNCHANGED <<fs, tempBy>>
    /\ UNCHANGED SeqVars

\* begin_atomic_write of process p: fs::copy(target, backup)
RaceBeginBackup(p) ==
    /\ procs[p].pc = "backup"
    /\ fs' = create_backup(fs, RacePath)
    /\ procs' = [procs EXCEPT ![p].pc = "read"]
    /\ UNCHANGED tempBy
    /\ UNCHANGED SeqVars

\* begin_atomic_write of process p: read_file
RaceBeginRead(p) ==
    /\ procs[p].pc = "read"
    /\ procs' = [procs EXCEPT ![p].pc = "tempwrite", ![p].content = fs[RacePath].bytes]
    /\ UNCHANGED <<fs, tempBy>>
    /\ UNCHANGED SeqVars

\* begin_atomic_write of process p: fs::write(temp, content)
RaceBeginTemp(p) ==
    /\ procs[p].pc = "tempwrite"
    /\ fs' = write_temp(fs, RacePath, procs[p].content)
    /\ tempBy' = p
    /\ procs' = [procs EXCEPT ![p].pc = "mutate"]
    /\ UNCHANGED SeqVars

\* atomic_modify of process p: match modify_fn(original_content)
RaceModify(p) ==
    /\ procs[p].pc = "mutate"
    /\ LET r == ModifyFn(procs[p].cmd, procs[p].content)
       IN  procs' = IF r.ok
                    THEN [procs EXCEPT ![p].pc = "write", ![p].modified = r.bytes]
                    ELSE [procs EXCEPT ![p].pc = AfterFailedStep("mutate"), ![p].err = r.err]
    /\ UNCHANGED <<fs, tempBy>>
    /\ UNCHANGED SeqVars

\* atomic_modify of process p: self.write_temp(&modified_content)
RaceWriteStaged(p) ==
    /\ procs[p].pc = "write"
    /\ fs' = write_temp(fs, RacePath, procs[p].modified)
    /\ tempBy' = p
    /\ procs' = [procs EXCEPT ![p].pc = "commit"]
    /\ UNCHANGED SeqVars

\* atomic_modify of process p: self.commit_atomic_write(); fs::rename fails
\* when there is no temp file
RaceCommit(p) ==
    /\ procs[p].pc = "commit"
    /\ IF fs[RaceTemp].exists
       THEN /\ fs' = commit_atomic_write(fs, RacePath)
            /\ tempBy' = p
            /\ procs' = [ProcReturns(p, "ok", "") EXCEPT
                            ![p].pub = [kind |-> "renamed", bytes |-> fs[RaceTemp].bytes,
                                        by |-> tempBy]]
       ELSE /\ procs' = [procs EXCEPT
                            ![p].pc = AfterFailedStep("commit"),
                            ![p].err = "failed_to_commit",
                            ![p].pub = [kind |-> "temp_gone", bytes |-> <<>>, by |-> tempBy]]
            /\ UNCHANGED <<fs, tempBy>>
    /\ UNCHANGED SeqVars

\* rollback of process p: self.temp_path.exists()
RaceRollbackCheck(p) ==
    /\ procs[p].pc = "rb_remove"
    /\ procs' = [procs EXCEPT ![p].pc = IF fs[RaceTemp].exists THEN "rb_remove_call"
                                        ELSE "rb_restore"]
    /\ UNCHANGED <<fs, tempBy>>
    /\ UNCHANGED SeqVars

\* rollback of process p: fs::remove_file(temp), which fails when the temp
\* file has gone since the check
RaceRollbackRemove(p) ==
    /\ procs[p].pc = "rb_remove_call"
    /\ IF fs[RaceTemp].exists
       THEN /\ fs' = rollback_remove_temp(fs, RacePath)
            /\ tempBy' = p
            /\ procs' = [procs EXCEPT ![p].pc = "rb_restore"]
       ELSE /\ procs' = ProcReturns(p, "err", RollbackError("rb_remove", procs[p].err))
            /\ UNCHANGED <<fs, tempBy>>
    /\ UNCHANGED SeqVars

\* rollback of process p: if the backup exists, fs::copy(backup, target);
\* then atomic_modify returns Err(e)
RaceRollbackRestore(p) ==
    /\ procs[p].pc = "rb_restore"
    /\ fs' = IF fs[RaceBackup].exists THEN rollback_restore(fs, RacePath) ELSE fs
    /\ procs' = ProcReturns(p, "err", procs[p].err)
    /\ UNCHANGED tempBy
    /\ UNCHANGED SeqVars

RaceNext ==
    \/ \E p \in Procs : RaceStart(p)
    \/ \E p \in Procs : RaceBeginBackup(p)
    \/ \E p \in Procs : RaceBeginRead(p)
    \/ \E p \in Procs : RaceBeginTemp(p)
    \/ \E p \in Procs : RaceModify(p)
    \/ \E p \in Procs : RaceWriteStaged(p)
    \/ \E p \in Procs : RaceCommit(p)
    \/ \E p \in Procs : RaceRollbackCheck(p)
    \/ \E p \in Procs : RaceRollbackRemove(p)
    \/ \E p \in Procs : RaceRollbackRestore(p)

SpecRace == RaceInit /\ [][RaceNext]_vars

(* ------------------------------- C20 ---------------------------------- *)

\* C20: two processes that run a transaction on the same target path use the
\* same temp path and the same backup path, and whatever goes wrong at a
\* commit is the other process's doing: a commit rename publishes the bytes
\* its own process staged when that process was the last to touch the temp
\* file, and otherwise publishes bytes the other process wrote to it; a commit
\* rename fails for want of the temp file only after the other process renamed
\* or removed it. (That both happen is the witness.)
C20_CommitTakesWhatTheOtherLeft ==
    \A p \in Procs : \A q \in Procs \ {p} :
        /\ (procs[p].pc # "idle" /\ procs[q].pc # "idle") =>
                /\ generate_temp_path(procs[p].cmd.path) = generate_temp_path(procs[q].cmd.path)
                /\ generate_backup_path(procs[p].cmd.path)
                        = generate_backup_path(procs[q].cmd.path)
        /\ (procs[p].pub.kind = "renamed" /\ procs[p].pub.by = p) =>
                procs[p].pub.bytes = procs[p].modified
        /\ (procs[p].pub.kind = "renamed" /\ procs[p].pub.by # p) =>
                /\ procs[p].pub.by = q
                /\ procs[p].pub.bytes \in {procs[q].content, procs[q].modified}
        /\ procs[p].pub.kind = "temp_gone" => procs[p].pub.by = q
        /\ procs[p].result.status = "ok" /\ procs[p].pub.kind # "none" =>
                procs[p].pub.kind = "renamed"

\* one process's commit published the bytes the other had staged over its
\* own, and the other's commit then failed because the temp file was gone
C20_Witness ==
    \E p \in Procs : \E q \in Procs \ {p} :
        /\ procs[p].pub.kind = "renamed" /\ procs[p].pub.by = q
        /\ procs[p].result.status = "ok"
        /\ procs[p].pub.bytes # procs[p].modified
        /\ procs[p].pub.bytes = procs[q].modified
        /\ procs[q].pub.kind = "temp_gone" /\ procs[q].pub.by = p
        /\ procs[q].result.status = "err"

====
